---- MODULE Spec2Model ----
(***************************************************************************)
(* Amortization engine of the mortgage overpayment calculator              *)
(* (src/mortgage.py): annuity_payment, calculate_baseline_interest,        *)
(* calculate_shorten_term and calculate_reduce_payment, as called by       *)
(* src/app.py and src/test_mortgage.py.                                    *)
(*                                                                         *)
(* Every amount and rate of the program is a Python float: a binary        *)
(* floating-point number whose operations round to nearest, ties to even.  *)
(* The model keeps that arithmetic and shrinks only its size: a float has  *)
(* Prec significant bits (53 in the program) and is a multiple of          *)
(* 2^-FracBits (2^-1074 in the program).  A float x is held as the integer *)
(* x * 2^FracBits, so comparisons of floats are comparisons of integers.   *)
(* Overflow to infinity is outside the model: the bounds keep every value  *)
(* finite.                                                                 *)
(***************************************************************************)
EXTENDS Integers, Sequences, FiniteSets, TLC

(* ------------------------------ bounds -------------------------------- *)

\* significant bits of a float
Prec == 6

\* a float is a multiple of 2^-FracBits
FracBits == 8

\* longest loan term (in months) that is simulated
MaxMonths == 5

(* ------------------------- float arithmetic --------------------------- *)

Abs(x) == IF x < 0 THEN -x ELSE x

Sgn(x) == IF x < 0 THEN -1 ELSE 1

RECURSIVE BitLen(_)
\* number of binary digits of k >= 0
BitLen(k) == IF k = 0 THEN 0 ELSE 1 + BitLen(k \div 2)

RECURSIVE Zeros(_)
\* number of trailing zero bits of k > 0
Zeros(k) == IF k % 2 = 1 THEN 0 ELSE 1 + Zeros(k \div 2)

\* k without its trailing zero bits (k > 0)
Mant(k) == k \div (2 ^ Zeros(k))

\* n / d (n >= 0, d > 0) rounded to the nearest integer, ties to even
RNE(n, d) ==
    LET q == n \div d
        r == n % d
    IN  IF 2 * r < d THEN q
        ELSE IF 2 * r > d THEN q + 1
        ELSE IF q % 2 = 0 THEN q ELSE q + 1

\* floor(log2(n / d)) for n > 0, d > 0
FloorLog2(n, d) ==
    LET L == BitLen(n) - BitLen(d)
    IN  IF L >= 0
        THEN (IF n >= d * (2 ^ L) THEN L ELSE L - 1)
        ELSE (IF n * (2 ^ (-L)) >= d THEN L ELSE L - 1)

\* The float nearest to (n / d) * 2^s * 2^-FracBits (n >= 0, d > 0), as its
\* integer: at most Prec significant bits, ties to even, and gradual
\* underflow below 2^(Prec - FracBits).
RoundScaled(n, d, s) ==
    IF n = 0 THEN 0
    ELSE LET E == FloorLog2(n, d) + s
         IN  IF E < -1 THEN 0
             ELSE LET ge == IF E - Prec + 1 > 0 THEN E - Prec + 1 ELSE 0
                      t  == s - ge
                      q  == IF t >= 0 THEN RNE(n * (2 ^ t), d)
                                      ELSE RNE(n, d * (2 ^ (-t)))
                  IN  (2 ^ ge) * q

\* the float nearest to the integer k of units 2^-FracBits
Fl(k) == Sgn(k) * RoundScaled(Abs(k), 1, 0)

\* the float nearest to the rational n / d (a literal or an input)
Float(n, d) == Sgn(n) * RoundScaled(Abs(n), d, FracBits)

\* float(n) of a Python int
IntToFloat(n) == Float(n, 1)

One == Float(1, 1)

\* a + b
FAdd(a, b) == Fl(a + b)

\* a - b
FSub(a, b) == Fl(a - b)

\* a * b
FMul(a, b) ==
    IF a = 0 \/ b = 0 THEN 0
    ELSE Sgn(a) * Sgn(b) *
         RoundScaled(Mant(Abs(a)) * Mant(Abs(b)), 1,
                     Zeros(Abs(a)) + Zeros(Abs(b)) - FracBits)

\* a / b for b # 0 (Python raises ZeroDivisionError for b = 0: see the callers)
FDiv(a, b) ==
    IF a = 0 THEN 0
    ELSE Sgn(a) * Sgn(b) *
         RoundScaled(Mant(Abs(a)), Mant(Abs(b)),
                     Zeros(Abs(a)) - Zeros(Abs(b)) + FracBits)

\* x ** n for a float x > 0 and a Python int n: the exact power, rounded once
FPow(x, n) ==
    LET m == Mant(x)
        z == Zeros(x)
    IN  IF n >= 0
        THEN RoundScaled(m ^ n, 1, n * (z - FracBits) + FracBits)
        ELSE RoundScaled(1, m ^ (-n), (-n) * (FracBits - z) + FracBits)

\* max(0.0, x)
Max0(x) == IF x > 0 THEN x ELSE 0

(* --------------------------- annuity_payment -------------------------- *)

\* annuity_payment(principal, monthly_rate, months): ok = FALSE stands for
\* the ZeroDivisionError that the division raises.
annuity_payment(principal, monthly_rate, months) ==
    IF monthly_rate > 0
    THEN LET r_pow_n == FPow(FAdd(One, monthly_rate), months)
             den     == FSub(r_pow_n, One)
         IN  IF den = 0
             THEN [ok |-> FALSE, value |-> 0]
             ELSE [ok |-> TRUE,
                   value |-> FDiv(FMul(principal, FMul(monthly_rate, r_pow_n)), den)]
    ELSE IF months = 0
         THEN [ok |-> FALSE, value |-> 0]
         ELSE [ok |-> TRUE, value |-> FDiv(principal, IntToFloat(months))]

(* ---------------------- calculate_baseline_interest ------------------- *)

\* the locals of calculate_baseline_interest before its loop; i counts the
\* iterations of "for _ in range(total_months)"
BaselineInit(principal) ==
    [balance |-> principal, total_interest |-> 0, i |-> 0]

BaselineCond(s, total_months) == s.i < total_months

\* one iteration of the loop
BaselineBody(s, monthly_rate, base_payment) ==
    LET interest == FMul(s.balance, monthly_rate)
    IN  [balance        |-> FSub(s.balance, FSub(base_payment, interest)),
         total_interest |-> FAdd(s.total_interest, interest),
         i              |-> s.i + 1]

RECURSIVE BaselineRun(_, _, _, _)
\* the locals after at most k more iterations
BaselineRun(s, monthly_rate, base_payment, k) ==
    IF k <= 0 THEN s
    ELSE BaselineRun(BaselineBody(s, monthly_rate, base_payment),
                     monthly_rate, base_payment, k - 1)

\* the locals of the baseline loop after its first k iterations
BaselineAfter(principal, monthly_rate, base_payment, k) ==
    BaselineRun(BaselineInit(principal), monthly_rate, base_payment, k)

\* the value calculate_baseline_interest returns
calculate_baseline_interest(principal, monthly_rate, base_payment, total_months) ==
    BaselineAfter(principal, monthly_rate, base_payment, total_months).total_interest

(* ------------------------ calculate_shorten_term ---------------------- *)

\* a MonthlyEntry
MonthlyEntry(month, balance, interest, principal, overpayment) ==
    [month |-> month, balance |-> balance, interest |-> interest,
     principal |-> principal, overpayment |-> overpayment]

\* ShortenInit with the overpayment left out of the payment
ShortenInit_NoOverpayment(principal, base_payment, overpayment) ==
    [balance |-> principal, month |-> 0, total_interest |-> 0,
     schedule |-> << >>, payment |-> base_payment, caps |-> << >>]

\* the locals of calculate_shorten_term before its loop.  caps is history,
\* not a local: caps[k] tells whether the final-month cap fired in period k.
ShortenInit(principal, base_payment, overpayment) ==
    [balance |-> principal, month |-> 0, total_interest |-> 0,
     schedule |-> << >>, payment |-> FAdd(base_payment, overpayment),
     caps |-> << >>]

\* ShortenCond that lets month reach total_months before it stops
ShortenCond_OffByOne(s, total_months) == s.balance > 0 /\ s.month <= total_months

\* ShortenCond without the bound on the number of months
ShortenCond_NoTermBound(s, total_months) == s.balance > 0

\* while balance > 0 and month < total_months
ShortenCond(s, total_months) == s.balance > 0 /\ s.month < total_months

\* ShortenBody without the final-month cap
ShortenBody_NoCap(s, monthly_rate, base_payment) ==
    LET interest == FMul(s.balance, monthly_rate)
        principal_paid == FSub(s.payment, interest)
        balance  == FSub(s.balance, principal_paid)
        month    == s.month + 1
    IN  [balance        |-> balance,
         month          |-> month,
         total_interest |-> FAdd(s.total_interest, interest),
         schedule       |-> Append(s.schedule,
                               MonthlyEntry(month, balance, interest, principal_paid,
                                   Max0(FSub(FAdd(interest, principal_paid), base_payment)))),
         payment        |-> s.payment,
         caps           |-> Append(s.caps, FALSE)]

\* ShortenBody with the whole payment taken as principal
ShortenBody_PaymentIsPrincipal(s, monthly_rate, base_payment) ==
    LET interest == FMul(s.balance, monthly_rate)
        uncapped == s.payment
        cap      == uncapped > s.balance
        principal_paid == IF cap THEN s.balance ELSE uncapped
        payment  == IF cap THEN FAdd(s.balance, interest) ELSE s.payment
        balance  == FSub(s.balance, principal_paid)
        month    == s.month + 1
    IN  [balance        |-> balance,
         month          |-> month,
         total_interest |-> FAdd(s.total_interest, interest),
         schedule       |-> Append(s.schedule,
                               MonthlyEntry(month, balance, interest, principal_paid,
                                   Max0(FSub(FAdd(interest, principal_paid), base_payment)))),
         payment        |-> payment,
         caps           |-> Append(s.caps, cap)]

\* ShortenBody whose cap refuses a payment above the balance instead of
\* reducing it to the balance
ShortenBody_CapRefuses(s, monthly_rate, base_payment) ==
    LET interest == FMul(s.balance, monthly_rate)
        uncapped == FSub(s.payment, interest)
        cap      == uncapped > s.balance
        principal_paid == IF cap THEN 0 ELSE uncapped
        payment  == IF cap THEN interest ELSE s.payment
        balance  == FSub(s.balance, principal_paid)
        month    == s.month + 1
    IN  [balance        |-> balance,
         month          |-> month,
         total_interest |-> FAdd(s.total_interest, interest),
         schedule       |-> Append(s.schedule,
                               MonthlyEntry(month, balance, interest, principal_paid,
                                   Max0(FSub(FAdd(interest, principal_paid), base_payment)))),
         payment        |-> payment,
         caps           |-> Append(s.caps, cap)]

\* one iteration of the loop
ShortenBody(s, monthly_rate, base_payment) ==
    LET interest == FMul(s.balance, monthly_rate)
        uncapped == FSub(s.payment, interest)
        cap      == uncapped > s.balance
        principal_paid == IF cap THEN s.balance ELSE uncapped
        payment  == IF cap THEN FAdd(s.balance, interest) ELSE s.payment
        balance  == FSub(s.balance, principal_paid)
        month    == s.month + 1
    IN  [balance        |-> balance,
         month          |-> month,
         total_interest |-> FAdd(s.total_interest, interest),
         schedule       |-> Append(s.schedule,
                               MonthlyEntry(month, balance, interest, principal_paid,
                                   Max0(FSub(FAdd(interest, principal_paid), base_payment)))),
         payment        |-> payment,
         caps           |-> Append(s.caps, cap)]

\* the StrategyResult calculate_shorten_term returns
ShortenResult(s, base_payment) ==
    [months |-> s.month, total_interest |-> s.total_interest,
     schedule |-> s.schedule, final_installment |-> base_payment]

RECURSIVE ShortenRun(_, _, _, _)
\* the locals when the loop has ended
ShortenRun(s, monthly_rate, base_payment, total_months) ==
    IF ShortenCond(s, total_months)
    THEN ShortenRun(ShortenBody(s, monthly_rate, base_payment),
                    monthly_rate, base_payment, total_months)
    ELSE s

\* calculate_shorten_term as a function of its arguments
calculate_shorten_term(principal, monthly_rate, base_payment, overpayment, total_months) ==
    ShortenResult(ShortenRun(ShortenInit(principal, base_payment, overpayment),
                             monthly_rate, base_payment, total_months),
                  base_payment)

(* ----------------------- calculate_reduce_payment --------------------- *)

\* the locals of calculate_reduce_payment before its loop.  caps and insts are
\* history: caps[k] tells whether the cap fired in period k, insts[k] is
\* current_installment of period k.
ReduceInit(principal, base_payment, total_months) ==
    [balance |-> principal, month |-> 0, total_interest |-> 0,
     schedule |-> << >>, remaining |-> total_months,
     installment |-> base_payment, caps |-> << >>, insts |-> << >>]

\* while balance > 0 and remaining > 0
ReduceCond(s) == s.balance > 0 /\ s.remaining > 0

\* Recalculate that keeps the installment
Recalculate_Never(installment, balance, monthly_rate, remaining) ==
    [ok |-> TRUE, value |-> installment]

\* Recalculate for the term before this period was counted off
Recalculate_StaleTerm(installment, balance, monthly_rate, remaining) ==
    IF remaining > 0 /\ balance > 0
    THEN annuity_payment(balance, monthly_rate, remaining + 1)
    ELSE [ok |-> TRUE, value |-> installment]

\* the recalculation that ends an iteration.  annuity_payment raises here
\* only for a rate > 0 so small that 1 + rate rounds to 1; a caller that got
\* base_payment from annuity_payment with that rate has seen it raise before.
Recalculate(installment, balance, monthly_rate, remaining) ==
    IF remaining > 0 /\ balance > 0
    THEN annuity_payment(balance, monthly_rate, remaining)
    ELSE [ok |-> TRUE, value |-> installment]

\* ReduceBody whose cap leaves the interest out of the capped payment, so
\* that the principal paid is the balance less the interest
ReduceBody_CapLessInterest(s, monthly_rate, overpayment) ==
    LET interest == FMul(s.balance, monthly_rate)
        current_installment == s.installment
        uncapped == FSub(FAdd(s.installment, overpayment), interest)
        cap      == uncapped > s.balance
        principal_paid == IF cap THEN FSub(s.balance, interest) ELSE uncapped
        balance  == FSub(s.balance, principal_paid)
        month    == s.month + 1
        remaining == s.remaining - 1
        recalculated == Recalculate(s.installment, balance, monthly_rate, remaining)
    IN  [ok |-> recalculated.ok,
         s  |-> [balance        |-> balance,
                 month          |-> month,
                 total_interest |-> FAdd(s.total_interest, interest),
                 schedule       |-> Append(s.schedule,
                                       MonthlyEntry(month, balance, interest, principal_paid,
                                           Max0(FSub(FAdd(interest, principal_paid),
                                                     current_installment)))),
                 remaining      |-> remaining,
                 installment    |-> recalculated.value,
                 caps           |-> Append(s.caps, cap),
                 insts          |-> Append(s.insts, current_installment)]]

\* one iteration of the loop; ok = FALSE when the recalculation raises
ReduceBody(s, monthly_rate, overpayment) ==
    LET interest == FMul(s.balance, monthly_rate)
        current_installment == s.installment
        uncapped == FSub(FAdd(s.installment, overpayment), interest)
        cap      == uncapped > s.balance
        principal_paid == IF cap THEN s.balance ELSE uncapped
        balance  == FSub(s.balance, principal_paid)
        month    == s.month + 1
        remaining == s.remaining - 1
        recalculated == Recalculate(s.installment, balance, monthly_rate, remaining)
    IN  [ok |-> recalculated.ok,
         s  |-> [balance        |-> balance,
                 month          |-> month,
                 total_interest |-> FAdd(s.total_interest, interest),
                 schedule       |-> Append(s.schedule,
                                       MonthlyEntry(month, balance, interest, principal_paid,
                                           Max0(FSub(FAdd(interest, principal_paid),
                                                     current_installment)))),
                 remaining      |-> remaining,
                 installment    |-> recalculated.value,
                 caps           |-> Append(s.caps, cap),
                 insts          |-> Append(s.insts, current_installment)]]

\* the StrategyResult calculate_reduce_payment returns
ReduceResult(s) ==
    [months |-> s.month, total_interest |-> s.total_interest,
     schedule |-> s.schedule, final_installment |-> s.installment]

(* ------------------------------- state -------------------------------- *)

VARIABLES
    principal,      \* the caller's arguments
    monthly_rate,
    total_months,
    overpayment,
    mode,           \* "annuity": base_payment comes from annuity_payment; "given": it is an argument
    base_payment,
    pc,             \* the caller's position
    bl,             \* locals of calculate_baseline_interest
    a,              \* locals of calculate_shorten_term
    b,              \* locals of calculate_reduce_payment
    blRes,          \* << >>, or <<the value returned>>
    resA,           \* << >>, or <<the StrategyResult returned>>
    resB

vars == <<principal, monthly_rate, total_months, overpayment, mode, base_payment,
          pc, bl, a, b, blRes, resA, resB>>

\* inputs of the presentation layer (src/app.py) and the tests: a positive
\* principal, a rate >= 0, a term >= 1, an overpayment >= 0.  Float(1, 2^FracBits)
\* is the smallest positive float.
Principals == {Float(1, 1), Float(12, 1), Float(13, 1), Float(30, 1)}

Rates == {0, Float(1, 2 ^ FracBits), Float(1, 8), Float(1, 4), Float(1, 1), Float(2, 1)}

Overpayments == {0, Float(1, 2 ^ FracBits), Float(1, 3), Float(1, 1), Float(4, 1), Float(30, 1)}

Terms == 1 .. MaxMonths

\* arguments of a direct call of the functions, which check nothing
AnyPrincipals == {Float(-12, 1), 0, Float(1, 1), Float(13, 1)}

AnyRates == {Float(-1, 4), 0, Float(1, 2 ^ FracBits), Float(1, 4), Float(2, 1)}

AnyOverpayments == {Float(-4, 1), 0, Float(1, 1), Float(30, 1)}

AnyTerms == -1 .. MaxMonths

AnyBasePayments == {0, Float(1, 1), Float(4, 1), Float(40, 1)}

NotCalled == [balance |-> 0, month |-> 0, total_interest |-> 0]

Start(P, r, n, o, m, bp) ==
    /\ principal = P
    /\ monthly_rate = r
    /\ total_months = n
    /\ overpayment = o
    /\ mode = m
    /\ base_payment = bp
    /\ pc = IF m = "annuity" THEN "annuity" ELSE "call_baseline"
    /\ bl = NotCalled
    /\ a = NotCalled
    /\ b = NotCalled
    /\ blRes = << >>
    /\ resA = << >>
    /\ resB = << >>

\* src/app.py: the sidebar's inputs, base_payment from annuity_payment
Init ==
    \E P \in Principals, r \in Rates, n \in Terms, o \in Overpayments :
        Start(P, r, n, o, "annuity", 0)

\* any arguments, base_payment from annuity_payment or given
InitAny ==
    \E P \in AnyPrincipals, r \in AnyRates, n \in AnyTerms, o \in AnyOverpayments,
       m \in {"annuity", "given"}, bp \in AnyBasePayments :
        /\ m = "annuity" => bp = 0
        /\ Start(P, r, n, o, m, bp)

(* ------------------------------ actions ------------------------------- *)

\* base_payment = annuity_payment(principal, monthly_rate, total_months)
Annuity ==
    /\ pc = "annuity"
    /\ LET v == annuity_payment(principal, monthly_rate, total_months)
       IN  IF v.ok
           THEN base_payment' = v.value /\ pc' = "call_baseline"
           ELSE base_payment' = base_payment /\ pc' = "error"
    /\ UNCHANGED <<principal, monthly_rate, total_months, overpayment, mode,
                   bl, a, b, blRes, resA, resB>>

BaselineCall ==
    /\ pc = "call_baseline"
    /\ bl' = BaselineInit(principal)
    /\ pc' = "baseline"
    /\ UNCHANGED <<principal, monthly_rate, total_months, overpayment, mode,
                   base_payment, a, b, blRes, resA, resB>>

BaselineStep ==
    /\ pc = "baseline"
    /\ BaselineCond(bl, total_months)
    /\ bl' = BaselineBody(bl, monthly_rate, base_payment)
    /\ UNCHANGED <<principal, monthly_rate, total_months, overpayment, mode,
                   base_payment, pc, a, b, blRes, resA, resB>>

BaselineReturn ==
    /\ pc = "baseline"
    /\ ~BaselineCond(bl, total_months)
    /\ blRes' = <<bl.total_interest>>
    /\ pc' = "call_shorten"
    /\ UNCHANGED <<principal, monthly_rate, total_months, overpayment, mode,
                   base_payment, bl, a, b, resA, resB>>

ShortenCall ==
    /\ pc = "call_shorten"
    /\ a' = ShortenInit(principal, base_payment, overpayment)
    /\ pc' = "shorten"
    /\ UNCHANGED <<principal, monthly_rate, total_months, overpayment, mode,
                   base_payment, bl, b, blRes, resA, resB>>

ShortenStep ==
    /\ pc = "shorten"
    /\ ShortenCond(a, total_months)
    /\ a' = ShortenBody(a, monthly_rate, base_payment)
    /\ UNCHANGED <<principal, monthly_rate, total_months, overpayment, mode,
                   base_payment, pc, bl, b, blRes, resA, resB>>

ShortenReturn ==
    /\ pc = "shorten"
    /\ ~ShortenCond(a, total_months)
    /\ resA' = <<ShortenResult(a, base_payment)>>
    /\ pc' = "call_reduce"
    /\ UNCHANGED <<principal, monthly_rate, total_months, overpayment, mode,
                   base_payment, bl, a, b, blRes, resB>>

ReduceCall ==
    /\ pc = "call_reduce"
    /\ b' = ReduceInit(principal, base_payment, total_months)
    /\ pc' = "reduce"
    /\ UNCHANGED <<principal, monthly_rate, total_months, overpayment, mode,
                   base_payment, bl, a, blRes, resA, resB>>

ReduceStep ==
    /\ pc = "reduce"
    /\ ReduceCond(b)
    /\ LET n == ReduceBody(b, monthly_rate, overpayment)
       IN  IF n.ok
           THEN b' = n.s /\ pc' = pc
           ELSE b' = b /\ pc' = "error"
    /\ UNCHANGED <<principal, monthly_rate, total_months, overpayment, mode,
                   base_payment, bl, a, blRes, resA, resB>>

ReduceReturn ==
    /\ pc = "reduce"
    /\ ~ReduceCond(b)
    /\ resB' = <<ReduceResult(b)>>
    /\ pc' = "done"
    /\ UNCHANGED <<principal, monthly_rate, total_months, overpayment, mode,
                   base_payment, bl, a, b, blRes, resA>>

Next ==
    \/ Annuity
    \/ BaselineCall
    \/ BaselineStep
    \/ BaselineReturn
    \/ ShortenCall
    \/ ShortenStep
    \/ ShortenReturn
    \/ ReduceCall
    \/ ReduceStep
    \/ ReduceReturn

\* the application's run: valid inputs, base_payment from annuity_payment
Spec == Init /\ [][Next]_vars

\* direct calls with any arguments
SpecAny == InitAny /\ [][Next]_vars

(* ------------------------------ claims -------------------------------- *)

\* the inputs the claims call valid, with base_payment from annuity_payment
Valid ==
    /\ principal > 0
    /\ monthly_rate >= 0
    /\ total_months >= 1
    /\ overpayment >= 0
    /\ mode = "annuity"

\* calculate_shorten_term has been entered: a holds its locals
InA == pc \in {"shorten", "call_reduce", "reduce", "done"}

\* calculate_reduce_payment has been entered: b holds its locals
InB == pc \in {"reduce", "done"}

\* the locals of the baseline loop after k periods, for the state's arguments
BL(k) == BaselineAfter(principal, monthly_rate, base_payment, k)

\* the interest of the baseline loop's period k
BLInterest(k) == FMul(BL(k - 1).balance, monthly_rate)

(* C1 *)

C1_Dominates ==
    /\ resA[1].months <= resB[1].months
    /\ resA[1].total_interest <= resB[1].total_interest

C2_Original ==
    (Valid /\ overpayment = 0 /\ pc = "done") =>
        /\ resA[1].months = total_months
        /\ resA[1].total_interest = blRes[1]
        /\ \A k \in 1 .. Len(a.schedule) :
              /\ a.schedule[k].interest = BLInterest(k)
              /\ a.schedule[k].balance = BL(k).balance
              /\ ~a.caps[k]

\* C2, amended: with overpayment = 0 shorten-term runs at most total_months
\* periods; in every period it runs, its interest is the baseline's, and so
\* is its balance unless the cap fired in that period, which is then its last
\* and leaves balance 0; its accumulated interest is the baseline's after as
\* many periods, so that a run of exactly total_months periods returns the
\* value calculate_baseline_interest returns.
C2_Amended ==
    (Valid /\ overpayment = 0 /\ InA) =>
        /\ a.month <= total_months
        /\ a.total_interest = BL(a.month).total_interest
        /\ \A k \in 1 .. Len(a.schedule) :
              /\ a.schedule[k].interest = BLInterest(k)
              /\ \/ a.schedule[k].balance = BL(k).balance
                 \/ a.caps[k] /\ a.schedule[k].balance = 0 /\ k = Len(a.schedule)
        /\ (resA # << >> /\ resA[1].months = total_months)
              => resA[1].total_interest = blRes[1]

\* a zero-overpayment run of the full term, at a rate > 0, whose cap fired in
\* the last period and whose balance there differs from the baseline's
C2_Witness ==
    /\ Valid /\ overpayment = 0 /\ pc = "done" /\ monthly_rate > 0
    /\ total_months >= 3
    /\ resA[1].months = total_months
    /\ a.caps[total_months]
    /\ a.schedule[total_months].balance # BL(total_months).balance
    /\ resA[1].total_interest = blRes[1]
    /\ blRes[1] > 0

(* C3 *)

\* C3 as stated: with overpayment = 0 reduce-payment runs exactly total_months
\* periods, returns the baseline's total interest, every recalculation gives
\* base_payment again, and final_installment is base_payment.
C3_Original ==
    (Valid /\ overpayment = 0 /\ pc = "done") =>
        /\ resB[1].months = total_months
        /\ resB[1].total_interest = blRes[1]
        /\ \A k \in 1 .. Len(b.insts) : b.insts[k] = base_payment
        /\ resB[1].final_installment = base_payment

\* C3, amended: with overpayment = 0 reduce-payment runs at most total_months
\* periods; its first period is charged base_payment and has the baseline's
\* interest, and the baseline's balance unless its cap fired; the installment
\* of every later period k is annuity_payment(balance after period k - 1,
\* rate, total_months - (k - 1)), which is base_payment only up to rounding;
\* and final_installment is the installment that was in effect in the last
\* period run (base_payment itself when only one period ran).
C3_Amended ==
    (Valid /\ overpayment = 0 /\ InB) =>
        /\ b.month <= total_months
        /\ b.month + b.remaining = total_months
        /\ Len(b.schedule) >= 1 =>
              /\ b.insts[1] = base_payment
              /\ b.schedule[1].interest = BLInterest(1)
              /\ \/ b.schedule[1].balance = BL(1).balance
                 \/ b.caps[1] /\ b.schedule[1].balance = 0
        /\ \A k \in 2 .. Len(b.insts) :
              b.insts[k] = annuity_payment(b.schedule[k - 1].balance, monthly_rate,
                                           total_months - (k - 1)).value
        /\ resB # << >> =>
              resB[1].final_installment =
                  IF resB[1].months <= 1 THEN base_payment ELSE b.insts[resB[1].months]

\* a zero-overpayment run of the full term whose recalculated installment and
\* whose total interest both differ from the baseline's
C3_Witness ==
    /\ Valid /\ overpayment = 0 /\ pc = "done"
    /\ total_months >= 3
    /\ resB[1].months = total_months
    /\ resB[1].final_installment # base_payment
    /\ resB[1].final_installment = b.insts[total_months]
    /\ resB[1].total_interest # blRes[1]

(* C4 *)

\* the balance before period k of a schedule
Before(schedule, k) == IF k = 1 THEN principal ELSE schedule[k - 1].balance

C4_EntriesOriginal(schedule) ==
    \A k \in 1 .. Len(schedule) :
        /\ schedule[k].balance >= 0
        /\ schedule[k].balance <= Before(schedule, k)
        /\ schedule[k].balance = FSub(Before(schedule, k), schedule[k].principal)

C4_EntriesAmended(schedule) ==
    \A k \in 1 .. Len(schedule) :
        /\ schedule[k].balance >= 0
        /\ schedule[k].principal <= Before(schedule, k)
        /\ schedule[k].balance = FSub(Before(schedule, k), schedule[k].principal)
        /\ schedule[k].principal >= 0 => schedule[k].balance <= Before(schedule, k)

\* C4 as stated: in both strategies every balance is >= 0, no balance exceeds
\* the one before it, balance_after = balance_before - principal, and the
\* last balance of a returned schedule is exactly zero.
C4_Original ==
    Valid =>
        /\ InA => C4_EntriesOriginal(a.schedule)
        /\ InB => C4_EntriesOriginal(b.schedule)
        /\ resA # << >> => resA[1].schedule[resA[1].months].balance = 0
        /\ resB # << >> => resB[1].schedule[resB[1].months].balance = 0

\* C4, amended: in both strategies every balance is >= 0, no principal portion
\* exceeds the balance before it, balance_after = balance_before - principal
\* (so the balance does not grow in a period whose principal portion is >= 0),
\* and the last balance of a returned schedule is exactly zero when the loan
\* ended before total_months periods; after a full term a rounding residue
\* may remain.
C4_Amended ==
    Valid =>
        /\ InA => C4_EntriesAmended(a.schedule)
        /\ InB => C4_EntriesAmended(b.schedule)
        /\ (resA # << >> /\ resA[1].months < total_months)
              => resA[1].schedule[resA[1].months].balance = 0
        /\ (resB # << >> /\ resB[1].months < total_months)
              => resB[1].schedule[resB[1].months].balance = 0

\* both strategies ended early after several periods with balance 0, at a
\* rate > 0, with the cap having fired in shorten-term's last period
C4_Witness ==
    /\ Valid /\ pc = "done" /\ monthly_rate > 0
    /\ resA[1].months >= 2 /\ resA[1].months < total_months
    /\ resA[1].schedule[resA[1].months].balance = 0
    /\ a.caps[resA[1].months]
    /\ resB[1].months >= 2 /\ resB[1].months < total_months
    /\ resB[1].schedule[resB[1].months].balance = 0

(* C5 *)

C5_Numbered(months, schedule) ==
    /\ months = Len(schedule)
    /\ \A k \in 1 .. Len(schedule) : schedule[k].month = k

\* C5: for total_months >= 0 and any other arguments, neither loop runs more
\* than total_months iterations, and a returned result has months <=
\* total_months, months = len(schedule) and entries numbered 1, 2, ... in
\* order.
C5_Bounded ==
    total_months >= 0 =>
        /\ InA => a.month <= total_months /\ C5_Numbered(a.month, a.schedule)
        /\ InB => b.month <= total_months /\ C5_Numbered(b.month, b.schedule)
        /\ resA # << >> =>
              /\ resA[1].months <= total_months
              /\ C5_Numbered(resA[1].months, resA[1].schedule)
        /\ resB # << >> =>
              /\ resB[1].months <= total_months
              /\ C5_Numbered(resB[1].months, resB[1].schedule)

\* a direct call with a given base_payment that does not cover the interest:
\* both loops were stopped by the term with the balance above the principal
C5_Witness ==
    /\ pc = "done" /\ mode = "given" /\ total_months >= 3
    /\ resA[1].months = total_months /\ a.balance > principal
    /\ resB[1].months = total_months
    /\ Len(resB[1].schedule) = total_months

(* C6 *)

\* C6 as stated: for every valid input with overpayment > 0, shorten-term
\* returns months < total_months.
C6_Original ==
    (Valid /\ overpayment > 0 /\ resA # << >>) => resA[1].months < total_months

\* C6, amended: for every valid input with overpayment > 0, shorten-term
\* returns months <= total_months; months is the first period that closes
\* with balance 0, or total_months when no earlier period does; it is 1, and
\* so not below total_months, when total_months = 1.
C6_Amended ==
    (Valid /\ overpayment > 0 /\ resA # << >>) =>
        /\ resA[1].months >= 1
        /\ resA[1].months <= total_months
        /\ \A k \in 1 .. resA[1].months - 1 : resA[1].schedule[k].balance > 0
        /\ resA[1].months < total_months
              => resA[1].schedule[resA[1].months].balance = 0
        /\ total_months = 1 => resA[1].months = 1

\* an overpayment > 0 that ended the loan early, after several periods
C6_Witness ==
    /\ Valid /\ overpayment > 0 /\ resA # << >>
    /\ resA[1].months >= 2
    /\ resA[1].months < total_months

(* C7 *)

\* the first step of the same call with overpayment 0
ZeroFirst ==
    ReduceBody(ReduceInit(principal, base_payment, total_months), monthly_rate, 0).s

\* C7 as stated: for every valid input with overpayment > 0, reduce-payment
\* returns final_installment < base_payment, each recalculated installment
\* being strictly smaller than the one in effect before it.
C7_Original ==
    (Valid /\ overpayment > 0 /\ resB # << >>) =>
        /\ resB[1].final_installment < base_payment
        /\ \A k \in 2 .. Len(b.insts) : b.insts[k] < b.insts[k - 1]

\* C7, amended: for every valid input with overpayment > 0, reduce-payment
\* returns final_installment = base_payment when the loan is repaid in one
\* period (always when total_months = 1), because nothing is recalculated;
\* otherwise final_installment is the last recalculation,
\* annuity_payment(balance before the last period, rate, periods left then);
\* the first recalculated installment is never above the one the same loan
\* gets with overpayment 0.
C7_Amended ==
    (Valid /\ overpayment > 0 /\ resB # << >>) =>
        /\ resB[1].months = 1 => resB[1].final_installment = base_payment
        /\ total_months = 1 => resB[1].months = 1
        /\ resB[1].months >= 2 =>
              /\ resB[1].final_installment =
                    annuity_payment(resB[1].schedule[resB[1].months - 1].balance,
                                    monthly_rate,
                                    total_months - (resB[1].months - 1)).value
              /\ b.insts[2] <= ZeroFirst.installment

\* an overpayment > 0 with several recalculations, each below the installment
\* before it, and a final installment below base_payment
C7_Witness ==
    /\ Valid /\ overpayment > 0 /\ resB # << >>
    /\ resB[1].months >= 3
    /\ resB[1].final_installment < base_payment
    /\ \A k \in 2 .. Len(b.insts) : b.insts[k] < b.insts[k - 1]

(* C8 *)

\* months of calculate_shorten_term for the state's loan and overpayment o
MonthsWith(o) ==
    calculate_shorten_term(principal, monthly_rate, base_payment, o, total_months).months

\* C8 as stated: a larger overpayment strictly reduces the months of
\* shorten-term.
C8_Original ==
    (Valid /\ resA # << >>) =>
        \A o \in Overpayments : o > overpayment => MonthsWith(o) < resA[1].months

\* C8, amended: a larger overpayment never increases the months of
\* shorten-term (it may leave them unchanged).
C8_Amended ==
    (Valid /\ resA # << >>) =>
        \A o \in Overpayments : o > overpayment => MonthsWith(o) <= resA[1].months

\* two overpayments > 0 of which the larger ends the loan sooner
C8_Witness ==
    /\ Valid /\ resA # << >> /\ overpayment > 0
    /\ \E o \in Overpayments :
          o > overpayment /\ MonthsWith(o) < resA[1].months /\ MonthsWith(o) >= 2

(* C9 *)

\* C9 as stated: annuity_payment with months <= 0 returns no value, and the
\* two strategies return no result for total_months <= 0, a negative
\* principal or a negative overpayment.
C9_Rejected ==
    /\ (mode = "annuity" /\ total_months <= 0) => pc \in {"annuity", "error"}
    /\ (total_months <= 0 \/ principal < 0 \/ overpayment < 0)
          => resA = << >> /\ resB = << >>

(* C10 *)

\* the entries before the last: principal = (installment + overpayment) -
\* interest, and the overpayment recorded is the configured one
C10_EntriesOriginal(schedule, insts) ==
    \A k \in 1 .. Len(schedule) :
        /\ k < Len(schedule) =>
              /\ schedule[k].principal =
                    FSub(FAdd(insts[k], overpayment), schedule[k].interest)
              /\ schedule[k].overpayment = overpayment
        /\ schedule[k].overpayment >= 0

\* the same, with the overpayment recorded as the code computes it
C10_EntriesAmended(schedule, insts) ==
    \A k \in 1 .. Len(schedule) :
        /\ k < Len(schedule) =>
              schedule[k].principal =
                  FSub(FAdd(insts[k], overpayment), schedule[k].interest)
        /\ schedule[k].overpayment =
              Max0(FSub(FAdd(schedule[k].interest, schedule[k].principal), insts[k]))
        /\ schedule[k].overpayment >= 0

\* the cap fired only in the last period so far, which closed with balance 0
C10_CapLast(schedule, caps) ==
    \A k \in 1 .. Len(caps) :
        caps[k] => k = Len(caps) /\ schedule[k].balance = 0

\* shorten-term's installment in effect is base_payment in every period
InstsA == [k \in 1 .. Len(a.schedule) |-> base_payment]

\* C10 as stated: in both strategies the cap fires only in the last period
\* run, after which balance is 0 and the loop ends; every entry but the last
\* has principal = (installment in effect + overpayment) - interest and a
\* recorded overpayment equal to the configured one; every recorded
\* overpayment is >= 0.
C10_Original ==
    Valid =>
        /\ InA => /\ C10_CapLast(a.schedule, a.caps)
                  /\ C10_EntriesOriginal(a.schedule, InstsA)
        /\ InB => /\ C10_CapLast(b.schedule, b.caps)
                  /\ C10_EntriesOriginal(b.schedule, b.insts)

\* C10, amended: the same, except that the overpayment recorded in an entry is
\* max(0, (interest + principal) - installment in effect) as the floats give
\* it, which is the configured overpayment only up to rounding.
C10_Amended ==
    Valid =>
        /\ InA => /\ C10_CapLast(a.schedule, a.caps)
                  /\ C10_EntriesAmended(a.schedule, InstsA)
        /\ InB => /\ C10_CapLast(b.schedule, b.caps)
                  /\ C10_EntriesAmended(b.schedule, b.insts)

\* both strategies ran several periods with an overpayment > 0, the cap fired
\* in the last period of each, and an earlier entry of each records an
\* overpayment that is not the configured one
C10_Witness ==
    /\ Valid /\ pc = "done" /\ overpayment > 0
    /\ Len(a.caps) >= 2 /\ a.caps[Len(a.caps)]
    /\ Len(b.caps) >= 2 /\ b.caps[Len(b.caps)]
    /\ a.schedule[1].overpayment # overpayment
    /\ b.schedule[1].overpayment # overpayment

====
